---- MODULE Spec2Model ----
(***************************************************************************)
(* Chunking subsystem of standard-rag-text: the six chunkers of            *)
(* src/text_chunk, the dispatcher ChunkPlugin.process_chunk and the batch  *)
(* endpoint standard_rag_text of src/main.py.                              *)
(*                                                                         *)
(* A text is a sequence of one-character strings.  Python's 0-based,       *)
(* half-open slices text[a:b] are the operator Slice.                      *)
(***************************************************************************)
EXTENDS Integers, Sequences, FiniteSets, TLC

VARIABLES
    payload,      \* payload.chunking of the request (never assigned by the code)
    file,         \* the pathlib.Path handed to process(): name, exists, the file's characters
    processor,    \* class of the chunker constructed so far, or "None"
    self_,        \* attributes HybridChunkProcessor.__init__ copies from the payload
    pc,           \* position of the call: dispatch, construct, open, loop, done, raised
    file_read,    \* TRUE once read_text has been called on the file
    units,        \* text (fixed, sliding window) / sentences / paragraphs the loop walks
    cum_offsets,  \* paragraph-sliding: cumulative character offsets
    cursor,       \* start / i / idx / start_para at the head of the loop
    chunk_idx,    \* chunk_idx of the loop
    all_chunks,   \* all_chunks of the loop
    raised,       \* the exception the call raised, or NoExc
    starts,       \* history: the cursor at the head of every iteration entered so far
    text_files,   \* batch: the files data_dir.glob found, in order
    cpu_count,    \* batch: os.cpu_count() or 1
    task,         \* batch: per file, the state of its future
    file_result,  \* batch: per file, the dict _process_file returned
    results,      \* batch: results, in completion order
    response,     \* batch: the JSONResponse, or NoResponse
    bpc           \* batch: position of standard_rag_text

vars == <<payload, file, processor, self_, pc, file_read, units, cum_offsets,
          cursor, chunk_idx, all_chunks, raised, starts,
          text_files, cpu_count, task, file_result, results, response, bpc>>

chunkVars == <<payload, file, processor, self_, pc, file_read, units, cum_offsets,
               cursor, chunk_idx, all_chunks, raised, starts>>

batchVars == <<text_files, cpu_count, task, file_result, results, response, bpc>>

-----------------------------------------------------------------------------
(* Bounds of the model *)

MaxTextLen == 4      \* fixed / sliding window: every text over Alphabet up to this length
MaxSize == 4         \* chunk_size, window_size, stride and overlap range up to this
MaxPieces == 4       \* sentence / paragraph: texts of up to this many pieces
MaxHybridPieces == 4 \* hybrid: texts of up to this many sentences
MaxParas == 3        \* paragraph-sliding: texts of up to this many source paragraphs
MaxSentences == 3    \* hybrid: max_sentences ranges up to this
MaxOverlap == 2      \* hybrid: overlap_sentences and min_sentences range up to this
MaxFiles == 3        \* batch: up to this many files of any kind in the data directory
MaxCpus == 1         \* batch: os.cpu_count() ranges up to this
MaxBatch == 6        \* batch: up to this many readable files, more than the pool's threads

-----------------------------------------------------------------------------
(* Python built-ins *)

Min(a, b) == IF a <= b THEN a ELSE b

Max(a, b) == IF a >= b THEN a ELSE b

\* s[a:b] for 0 <= a, b (Python clamps both ends to len(s))
Slice(s, a, b) == SubSeq(s, Min(a, Len(s)) + 1, Min(b, Len(s)))

RECURSIVE SumSeq(_)
SumSeq(s) == IF s = <<>> THEN 0 ELSE Head(s) + SumSeq(Tail(s))

\* all sequences over S of length 0..n
SeqsUpTo(S, n) == UNION {[1..k -> S] : k \in 0..n}

-----------------------------------------------------------------------------
(* Exceptions *)

NoExc == [cls |-> "None", status_code |-> 0, msg |-> ""]

\* FileNotFoundError(f"File not found: {file_path}")
FileNotFoundError(file_path) ==
    [cls |-> "FileNotFoundError", status_code |-> 0,
     msg |-> "File not found: " \o file_path]

ValueError(m) == [cls |-> "ValueError", status_code |-> 0, msg |-> m]

-----------------------------------------------------------------------------
(* FixedChunkProcessor, src/text_chunk/fixed.py *)

\* mutant: an overlap equal to chunk_size is let through
FixedConfigError_OverlapOffByOne(p) ==
    IF p.chunk_size <= 0 THEN ValueError("chunk_size must be > 0")
    ELSE IF p.overlap < 0 \/ p.overlap > p.chunk_size
         THEN ValueError("overlap must be >= 0 and < chunk_size")
         ELSE NoExc

\* the ValueError of lines 41-44, or NoExc
FixedConfigError(p) ==
    IF p.chunk_size <= 0 THEN ValueError("chunk_size must be > 0")
    ELSE IF p.overlap < 0 \/ p.overlap >= p.chunk_size
         THEN ValueError("overlap must be >= 0 and < chunk_size")
         ELSE NoExc

FixedEnd(start, chunk_size, text_len) == Min(start + chunk_size, text_len)

\* mutant: the progress guard of lines 62-63 is missing
FixedNextStart_NoProgressGuard(start, end, overlap) == end - overlap

\* mutant: the overlap is added instead of subtracted
FixedNextStart_SignError(start, end, overlap) ==
    IF end + overlap <= start THEN end ELSE end + overlap

\* mutant: the next chunk starts at the end of this one, the overlap is ignored
FixedNextStart_IgnoresOverlap(start, end, overlap) == end

\* lines 60-64: advance with overlap, ensure progress
FixedNextStart(start, end, overlap) ==
    IF end - overlap <= start THEN end ELSE end - overlap

FixedChunk(name, text, start, end, idx) ==
    [id |-> <<"chunk_", idx>>, source |-> name, chunk_index |-> idx,
     text |-> Slice(text, start, end)]

\* one iteration of the while loop, lines 46-64
FixedIter(p, name, text, s) ==
    LET end == FixedEnd(s.start, p.chunk_size, Len(text))
    IN  [start |-> FixedNextStart(s.start, end, p.overlap),
         chunk_idx |-> s.chunk_idx + 1,
         all_chunks |-> Append(s.all_chunks,
                               FixedChunk(name, text, s.start, end, s.chunk_idx))]

-----------------------------------------------------------------------------
(* SlidingWindowChunkProcessor, src/text_chunk/sliding_window.py *)

SlidingConfigError(p) ==
    IF p.window_size <= 0 THEN ValueError("window_size must be > 0")
    ELSE IF p.stride <= 0 THEN ValueError("stride must be > 0")
         ELSE NoExc

\* mutant: the cursor advances by one less than the stride
SlidingNextStart_MinusOne(start, stride) == start + stride - 1

\* line 61: start += stride
SlidingNextStart(start, stride) == start + stride

SlidingChunk(name, text, start, end, idx) ==
    [id |-> <<"slide_chunk_", idx>>, source |-> name, chunk_index |-> idx,
     text |-> Slice(text, start, end)]

\* mutant: the cursor moves to the end of the chunk instead of by the stride
SlidingIter_AdvanceByChunk(p, name, text, s) ==
    LET end == Min(s.start + p.window_size, Len(text))
    IN  [start |-> end,
         chunk_idx |-> s.chunk_idx + 1,
         all_chunks |-> Append(s.all_chunks,
                               SlidingChunk(name, text, s.start, end, s.chunk_idx))]

\* one iteration of the while loop, lines 47-61
SlidingIter(p, name, text, s) ==
    LET end == Min(s.start + p.window_size, Len(text))
    IN  [start |-> SlidingNextStart(s.start, p.stride),
         chunk_idx |-> s.chunk_idx + 1,
         all_chunks |-> Append(s.all_chunks,
                               SlidingChunk(name, text, s.start, end, s.chunk_idx))]

-----------------------------------------------------------------------------
(* Characters, str.strip() and str.replace() *)

\* the characters \s matches and str.strip() removes, among those of the model
Whitespace == {" ", "\t", "\n", "\r", "\f"}

IsSpace(c) == c \in Whitespace

\* [\.\!\?]
EndPunct == {".", "!", "?"}

\* [\"\'] (the two typographic quotes of the pattern are outside the model's characters)
Quotes == {"\"", "'"}

\* [A-Z0-9]
UpperOrDigit ==
    {"A", "B", "C", "D", "E", "F", "G", "H", "I", "J", "K", "L", "M", "N", "O", "P",
     "Q", "R", "S", "T", "U", "V", "W", "X", "Y", "Z",
     "0", "1", "2", "3", "4", "5", "6", "7", "8", "9"}

\* s[i] with Python's 0-based index
At(s, i) == s[i + 1]

\* s.strip()
Strip(s) ==
    LET keep == {i \in 1..Len(s) : ~IsSpace(s[i])}
    IN  IF keep = {} THEN <<>>
        ELSE SubSeq(s, CHOOSE i \in keep : \A k \in keep : i <= k,
                       CHOOSE i \in keep : \A k \in keep : i >= k)

\* mutant: the blank pieces are dropped but the kept ones are not stripped
StripNonEmpty_NoStrip(parts) == SelectSeq(parts, LAMBDA p : Strip(p) # <<>>)

\* [p.strip() for p in parts if p and p.strip()]
RECURSIVE StripNonEmpty(_)
StripNonEmpty(parts) ==
    IF parts = <<>> THEN <<>>
    ELSE IF Strip(Head(parts)) = <<>> THEN StripNonEmpty(Tail(parts))
         ELSE <<Strip(Head(parts))>> \o StripNonEmpty(Tail(parts))

\* text.replace("\r\n", "\n").replace("\r", "\n"): the "\n" of every "\r\n" goes and
\* every "\r" becomes "\n"
NormalizeNewlines(text) ==
    LET marked == [i \in 1..Len(text) |->
                      [c |-> text[i],
                       after_cr |-> i > 1 /\ text[i - 1] = "\r"]]
        kept == SelectSeq(marked, LAMBDA x : ~(x.c = "\n" /\ x.after_cr))
    IN  [k \in 1..Len(kept) |-> IF kept[k].c = "\r" THEN "\n" ELSE kept[k].c]

\* the end (exclusive, 0-based) of the maximal run of whitespace starting at p
WsRunEnd(text, p) ==
    CHOOSE q \in p..Len(text) :
        /\ \A k \in p..(q - 1) : IsSpace(At(text, k))
        /\ q = Len(text) \/ ~IsSpace(At(text, q))

-----------------------------------------------------------------------------
(* regex_sentence_split, src/text_chunk/sentance.py and src/text_chunk/hybrid.py *)

\* (?<=[\.\!\?])\s+(?=(?:[\"\'...]?[A-Z0-9])) tried at position p: the end of the
\* match, or -1.  \s+ is greedy and any shorter run is followed by whitespace, so
\* only the maximal run can satisfy the lookahead.
SentencePunctMatch(text, p) ==
    LET e == WsRunEnd(text, p)
    IN  IF /\ p >= 1 /\ At(text, p - 1) \in EndPunct
           /\ e > p
           /\ \/ e < Len(text) /\ At(text, e) \in UpperOrDigit
              \/ /\ e + 1 < Len(text)
                 /\ At(text, e) \in Quotes
                 /\ At(text, e + 1) \in UpperOrDigit
        THEN e ELSE -1

\* (?<=\n) tried at position p: an empty match
SentenceNewlineMatch(text, p) == p >= 1 /\ At(text, p - 1) = "\n"

\* the positions from p on where the pattern matches; an empty match at p itself is
\* excluded when no_empty (one was just found there)
SentenceMatches(text, p, no_empty) ==
    {q \in p..Len(text) :
        \/ SentencePunctMatch(text, q) # -1
        \/ SentenceNewlineMatch(text, q) /\ ~(no_empty /\ q = p)}

\* re.split(pattern, text) from position p on; piece_start is the end of the last
\* match.  The leftmost match is taken, the first alternative before the second.
RECURSIVE SentenceSplitFrom(_, _, _, _)
SentenceSplitFrom(text, p, piece_start, no_empty) ==
    LET ms == SentenceMatches(text, p, no_empty)
        q == CHOOSE m \in ms : \A k \in ms : m <= k
    IN  IF ms = {} THEN <<Slice(text, piece_start, Len(text))>>
        ELSE IF SentencePunctMatch(text, q) # -1
             THEN <<Slice(text, piece_start, q)>>
                  \o SentenceSplitFrom(text, SentencePunctMatch(text, q),
                                       SentencePunctMatch(text, q), FALSE)
             ELSE <<Slice(text, piece_start, q)>>
                  \o SentenceSplitFrom(text, q, q, TRUE)

regex_sentence_split(text) ==
    StripNonEmpty(SentenceSplitFrom(NormalizeNewlines(text), 0, 0, FALSE))

-----------------------------------------------------------------------------
(* split_into_paragraphs, src/text_chunk/paragraph.py, and                  *)
(* paragraphs_from_text, src/text_chunk/sliding_paragraph.py                *)

\* \n\s*\n+ and \n\s*\n tried at position p: the end of the match, or -1.  The match
\* runs from the "\n" at p to the last "\n" of the whitespace run p starts.
BlankLineMatch(text, p) ==
    LET e == WsRunEnd(text, p)
        nl == {q \in (p + 1)..(e - 1) : At(text, q) = "\n"}
    IN  IF p < Len(text) /\ At(text, p) = "\n" /\ nl # {}
        THEN (CHOOSE q \in nl : \A k \in nl : q >= k) + 1
        ELSE -1

\* re.split from position p on; piece_start is the end of the last match
RECURSIVE BlankLineSplitFrom(_, _, _)
BlankLineSplitFrom(text, p, piece_start) ==
    LET ms == {q \in p..(Len(text) - 1) : BlankLineMatch(text, q) # -1}
        q == CHOOSE m \in ms : \A k \in ms : m <= k
    IN  IF ms = {} THEN <<Slice(text, piece_start, Len(text))>>
        ELSE <<Slice(text, piece_start, q)>>
             \o BlankLineSplitFrom(text, BlankLineMatch(text, q), BlankLineMatch(text, q))

split_into_paragraphs(text) ==
    StripNonEmpty(BlankLineSplitFrom(NormalizeNewlines(text), 0, 0))

\* the paragraph a short paragraph is merged into, line 18
MergeThreshold == 30

\* mutant: the short paragraph is appended after a single newline
MergeInto_SingleNewline(merged, p) ==
    [merged EXCEPT ![Len(merged)] = merged[Len(merged)] \o <<"\n">> \o p]

\* merged[-1] = merged[-1] + "\n\n" + p
MergeInto(merged, p) ==
    [merged EXCEPT ![Len(merged)] = merged[Len(merged)] \o <<"\n", "\n">> \o p]

RECURSIVE MergeShort(_, _)
MergeShort(paras, merged) ==
    IF paras = <<>> THEN merged
    ELSE IF Len(Head(paras)) < MergeThreshold /\ merged # <<>>
         THEN MergeShort(Tail(paras), MergeInto(merged, Head(paras)))
         ELSE MergeShort(Tail(paras), Append(merged, Head(paras)))

paragraphs_from_text(text) ==
    MergeShort(StripNonEmpty(BlankLineSplitFrom(text, 0, 0)), <<>>)

-----------------------------------------------------------------------------
(* SentenceChunkProcessor and ParagraphChunkProcessor: one chunk per unit *)

SentenceChunk(name, sentences, idx) ==
    [id |-> <<"sent_chunk_", idx>>, source |-> name, chunk_index |-> idx,
     text |-> At(sentences, idx)]

\* one iteration of "for idx, sentence in enumerate(sentences)", sentance.py lines 57-65
SentenceIter(name, sentences, s) ==
    [start |-> s.start + 1,
     chunk_idx |-> s.chunk_idx + 1,
     all_chunks |-> Append(s.all_chunks, SentenceChunk(name, sentences, s.start))]

ParagraphChunk(name, paragraphs, idx) ==
    [id |-> <<"para_chunk_", idx>>, source |-> name, chunk_index |-> idx,
     text |-> At(paragraphs, idx)]

\* one iteration of "for idx, para in enumerate(paragraphs)", paragraph.py lines 47-55
ParagraphIter(name, paragraphs, s) ==
    [start |-> s.start + 1,
     chunk_idx |-> s.chunk_idx + 1,
     all_chunks |-> Append(s.all_chunks, ParagraphChunk(name, paragraphs, s.start))]

-----------------------------------------------------------------------------
(* HybridChunkProcessor, src/text_chunk/hybrid.py *)

\* sep.join(parts)
RECURSIVE Join(_, _)
Join(sep, parts) ==
    IF parts = <<>> THEN <<>>
    ELSE IF Len(parts) = 1 THEN Head(parts)
         ELSE Head(parts) \o sep \o Join(sep, Tail(parts))

\* __init__, lines 44-47: the attributes copied from the payload
HybridSelf(p) ==
    [max_chars |-> p.max_chars, max_sentences |-> p.max_sentences,
     overlap_sentences |-> p.overlap_sentences, min_sentences |-> p.min_sentences]

\* __init__, lines 49-56
HybridConfigError(self) ==
    IF self.max_chars <= 0 THEN ValueError("max_chars must be > 0")
    ELSE IF self.max_sentences <= 0 THEN ValueError("max_sentences must be > 0")
    ELSE IF self.overlap_sentences < 0 THEN ValueError("overlap_sentences must be >= 0")
    ELSE IF self.min_sentences < 1 THEN ValueError("min_sentences must be >= 1")
    ELSE NoExc

\* mutant: the character limit breaks the loop whatever the sentence count
HybridBreak_IgnoresMin(self, g, sent) ==
    \/ g.s_count + 1 > self.max_sentences
    \/ g.current_chars + Len(sent) > self.max_chars

\* mutant: the sentence count is compared before the sentence is counted
HybridBreak_CountOffByOne(self, g, sent) ==
    \/ g.s_count > self.max_sentences
    \/ /\ g.current_chars + Len(sent) > self.max_chars
       /\ g.s_count >= self.min_sentences

\* the break condition of the inner loop, lines 94-97
HybridBreak(self, g, sent) ==
    \/ g.s_count + 1 > self.max_sentences
    \/ /\ g.current_chars + Len(sent) > self.max_chars
       /\ g.s_count >= self.min_sentences

\* the inner while loop, lines 91-102; g holds current_sentences, current_chars,
\* s_count and j
RECURSIVE HybridGrow(_, _, _)
HybridGrow(self, sentences, g) ==
    IF g.j < Len(sentences) /\ ~HybridBreak(self, g, At(sentences, g.j))
    THEN HybridGrow(self, sentences,
             [current_sentences |-> Append(g.current_sentences, At(sentences, g.j)),
              current_chars |-> g.current_chars + Len(At(sentences, g.j)) + 1,
              s_count |-> g.s_count + 1,
              j |-> g.j + 1])
    ELSE g

\* lines 104-109: force include one sentence to make progress
HybridForce(sentences, g) ==
    IF g.s_count = 0 /\ g.j < Len(sentences)
    THEN [g EXCEPT !.current_sentences = Append(g.current_sentences, At(sentences, g.j)),
                   !.j = g.j + 1,
                   !.s_count = 1]
    ELSE g

\* the sentences of the chunk that starts at sentence i, and the index after them
HybridGroup(self, sentences, i) ==
    HybridForce(sentences,
        HybridGrow(self, sentences,
            [current_sentences |-> <<>>, current_chars |-> 0, s_count |-> 0, j |-> i]))

\* mutant: the overlap is ignored, the next chunk starts where this one ended
HybridNextI_NoOverlap(i, j, overlap_sentences) == j

\* mutant: the next chunk starts one sentence further back than the overlap asks
HybridNextI_OverlapPlusOne(i, j, overlap_sentences) ==
    IF j - overlap_sentences - 1 <= i THEN j ELSE j - overlap_sentences - 1

\* lines 123-128: next start index using overlap_sentences, ensure progress
HybridNextI(i, j, overlap_sentences) ==
    IF j - overlap_sentences <= i THEN j ELSE j - overlap_sentences

\* uid stands for uuid.uuid4().hex[:8] of _make_id
HybridChunk(name, current_sentences, idx, uid) ==
    [id |-> <<"hyb_", uid>>, source |-> name, chunk_index |-> idx,
     text |-> Strip(Join(<<" ">>, current_sentences))]

\* one iteration of the outer while loop, lines 85-128
HybridIter(self, name, sentences, s, uid) ==
    LET g == HybridGroup(self, sentences, s.start)
    IN  [start |-> HybridNextI(s.start, g.j, self.overlap_sentences),
         chunk_idx |-> s.chunk_idx + 1,
         all_chunks |-> Append(s.all_chunks,
                               HybridChunk(name, g.current_sentences, s.chunk_idx, uid))]

-----------------------------------------------------------------------------
(* ParagraphSlidingChunkProcessor, src/text_chunk/sliding_paragraph.py *)

\* mutant: "offset = len(p) + 2" in place of "offset += len(p) + 2"
CumOffsets_Assign(paras, offset) ==
    [k \in 1..Len(paras) |-> IF k = 1 THEN offset ELSE Len(paras[k - 1]) + 2]

\* lines 90-94: offset of every paragraph, advancing by len(p) + 2
RECURSIVE CumOffsets(_, _)
CumOffsets(paras, offset) ==
    IF paras = <<>> THEN <<>>
    ELSE <<offset>> \o CumOffsets(Tail(paras), offset + Len(Head(paras)) + 2)

\* line 98
ParaSlideConfigError(p) ==
    IF p.window_size <= 0 \/ p.stride <= 0
    THEN ValueError("window_size and stride must be > 0")
    ELSE NoExc

\* the inner while loop, lines 110-119; b holds built and end_para
RECURSIVE ParaSlideGrow(_, _, _, _)
ParaSlideGrow(paras, max_chars, start_para, b) ==
    IF b.end_para < Len(paras)
    THEN LET candidate == IF b.built = <<>> THEN At(paras, b.end_para)
                          ELSE b.built \o <<"\n", "\n">> \o At(paras, b.end_para)
         IN  IF Len(candidate) > max_chars /\ b.end_para > start_para
             THEN b
             ELSE ParaSlideGrow(paras, max_chars, start_para,
                                [built |-> candidate, end_para |-> b.end_para + 1])
    ELSE b

\* lines 121-130: the text of the chunk; the slice is taken only when nothing was built
ParaSlideBuilt(paras, max_chars, start_para, b) ==
    IF b.built = <<>> THEN Slice(At(paras, start_para), 0, max_chars) ELSE b.built

\* mutant: the offset must be greater than the target, not greater or equal
ParaSlideNextPara_Strict(offsets, start_para, end_para, target_char) ==
    LET n == Len(offsets)
        found == {idx \in (start_para + 1)..(n - 1) : At(offsets, idx) > target_char}
        next_para == IF found = {} THEN end_para
                     ELSE CHOOSE idx \in found : \A k \in found : idx <= k
    IN  IF next_para <= start_para THEN end_para ELSE next_para

\* lines 146-158: the paragraph the next chunk starts at
ParaSlideNextPara(offsets, start_para, end_para, target_char) ==
    LET n == Len(offsets)
        found == {idx \in (start_para + 1)..(n - 1) : At(offsets, idx) >= target_char}
        next_para == IF found = {} THEN end_para
                     ELSE CHOOSE idx \in found : \A k \in found : idx <= k
    IN  IF next_para <= start_para THEN end_para ELSE next_para

\* mutant: chunk_index counts from 1
ParaSlideChunk_OneBased(name, start_para, end_para, char_start, built, idx) ==
    [chunk_id |-> <<"para_slide_chunk_", idx>>, source |-> name,
     chunk_index |-> idx + 1,
     paragraph_range |-> <<start_para, Max(start_para, end_para - 1)>>,
     char_start |-> char_start, char_end |-> char_start + Len(built),
     text |-> built]

\* mutant: paragraph_range ends at end_para, one past the last paragraph included
ParaSlideChunk_RangeEndExclusive(name, start_para, end_para, char_start, built, idx) ==
    [chunk_id |-> <<"para_slide_chunk_", idx>>, source |-> name, chunk_index |-> idx,
     paragraph_range |-> <<start_para, end_para>>,
     char_start |-> char_start, char_end |-> char_start + Len(built),
     text |-> built]

\* the record of lines 132-143; story_title and chapter_index, derived from the file
\* name alone, are left out
ParaSlideChunk(name, start_para, end_para, char_start, built, idx) ==
    [chunk_id |-> <<"para_slide_chunk_", idx>>, source |-> name, chunk_index |-> idx,
     paragraph_range |-> <<start_para, Max(start_para, end_para - 1)>>,
     char_start |-> char_start, char_end |-> char_start + Len(built),
     text |-> built]

\* one iteration of the outer while loop, lines 106-159
ParaSlideIter(p, name, paras, offsets, s) ==
    LET b == ParaSlideGrow(paras, p.window_size, s.start,
                           [built |-> <<>>, end_para |-> s.start])
        built == ParaSlideBuilt(paras, p.window_size, s.start, b)
        char_start == At(offsets, s.start)
    IN  [start |-> ParaSlideNextPara(offsets, s.start, b.end_para, char_start + p.stride),
         chunk_idx |-> s.chunk_idx + 1,
         all_chunks |-> Append(s.all_chunks,
                               ParaSlideChunk(name, s.start, b.end_para, char_start,
                                              built, s.chunk_idx))]

-----------------------------------------------------------------------------
(* Requests, src/app/schema.py and src/app/constants.py *)

\* a str value of a type field
Str(v) == [kind |-> "str", value |-> v]

\* a member of the Enum GenericChunkType: it is no str and equals no str
GenericChunkType(v) == [kind |-> "GenericChunkType", value |-> v]

FixedChunkRequest(type, chunk_size, overlap) ==
    [cls |-> "FixedChunkRequest", type |-> type,
     chunk_size |-> chunk_size, overlap |-> overlap]

GenericChunkRequest(type) == [cls |-> "GenericChunkRequest", type |-> type]

SlidingWindowChunkRequest(type, window_size, stride) ==
    [cls |-> "SlidingWindowChunkRequest", type |-> type,
     window_size |-> window_size, stride |-> stride]

HybridChunkRequest(type, max_chars, max_sentences, overlap_sentences, min_sentences) ==
    [cls |-> "HybridChunkRequest", type |-> type,
     max_chars |-> max_chars, max_sentences |-> max_sentences,
     overlap_sentences |-> overlap_sentences, min_sentences |-> min_sentences]

-----------------------------------------------------------------------------
(* ChunkPlugin.process_chunk, src/text_chunk/__init__.py *)

\* the dict of lines 24-31, keyed by the str constants of ChunkType
chunk_types ==
    [k \in {"fixed", "sentence", "paragraph", "sliding_window", "hybrid",
            "sliding_paragraph"} |->
        CASE k = "fixed" -> "FixedChunkProcessor"
          [] k = "sentence" -> "SentenceChunkProcessor"
          [] k = "paragraph" -> "ParagraphChunkProcessor"
          [] k = "sliding_window" -> "SlidingWindowChunkProcessor"
          [] k = "hybrid" -> "HybridChunkProcessor"
          [] k = "sliding_paragraph" -> "ParagraphSlidingChunkProcessor"]

\* mutant: an unknown type falls back to the fixed chunker
processor_cls_DefaultFixed(type) ==
    IF type.kind = "str" /\ type.value \in DOMAIN chunk_types
    THEN chunk_types[type.value]
    ELSE "FixedChunkProcessor"

\* chunk_types.get(payload.chunking.type): a key is found only by an equal str
processor_cls(type) ==
    IF type.kind = "str" /\ type.value \in DOMAIN chunk_types
    THEN chunk_types[type.value]
    ELSE "None"

\* lines 34-39
HTTPException(status_code, detail) ==
    [cls |-> "HTTPException", status_code |-> status_code, msg |-> detail]

\* the name of the member of GenericChunkType with the given value
MemberName(v) ==
    CASE v = "sentence" -> "SENTENCE"
      [] v = "paragraph" -> "PARAGRAPH"

\* f"{payload.chunking.type}": a str as it is, an Enum member as Class.NAME
FormatType(type) ==
    IF type.kind = "str" THEN type.value
    ELSE type.kind \o "." \o MemberName(type.value)

UnsupportedChunkType(type) ==
    HTTPException(400, "Unsupported chunk type: " \o FormatType(type))

-----------------------------------------------------------------------------
(* One call of a chunker: __init__ and the part of process() before the loop *)

NoSelf == [payload |-> "None"]

\* mutant: the hybrid __init__ clamps overlap_sentences in the payload it was given
Constructed_ClampsPayload(cls, p) ==
    IF cls = "HybridChunkProcessor"
    THEN [payload |-> [p EXCEPT !.overlap_sentences =
                                    Min(p.overlap_sentences, p.max_sentences - 1)]]
         @@ HybridSelf(p)
    ELSE [payload |-> p]

\* __init__ of every chunker keeps the payload; the hybrid one copies four fields
Constructed(cls, p) ==
    IF cls = "HybridChunkProcessor"
    THEN [payload |-> p] @@ HybridSelf(p)
    ELSE [payload |-> p]

\* the exception __init__ raises, or NoExc
ConstructError(cls, p) ==
    IF cls = "HybridChunkProcessor" THEN HybridConfigError(HybridSelf(p)) ELSE NoExc

\* the directory of the files, main.py line 39
data_dir == "data"

\* str(file_path) of a file of data_dir
PathStr(f) == data_dir \o "/" \o f.name

\* file_path.read_text(encoding="utf-8", errors="ignore"): the file is opened in text
\* mode, which turns every "\r\n" and every other "\r" of the file into "\n"
read_text(f) == NormalizeNewlines(f.content)

\* process() up to its loop: the exception raised (or NoExc), whether the file was
\* read, whether process() returns before the loop, and what the loop walks
Prologue(cls, p, f) ==
    IF ~f.exists
    THEN [exc |-> FileNotFoundError(PathStr(f)), read |-> FALSE, early |-> FALSE,
          units |-> <<>>, offsets |-> <<>>]
    ELSE CASE cls = "FixedChunkProcessor" ->
                [exc |-> FixedConfigError(p), read |-> TRUE, early |-> FALSE,
                 units |-> read_text(f), offsets |-> <<>>]
           [] cls = "SlidingWindowChunkProcessor" ->
                [exc |-> SlidingConfigError(p), read |-> TRUE, early |-> FALSE,
                 units |-> read_text(f), offsets |-> <<>>]
           [] cls = "SentenceChunkProcessor" ->
                [exc |-> NoExc, read |-> TRUE, early |-> FALSE,
                 units |-> regex_sentence_split(read_text(f)), offsets |-> <<>>]
           [] cls = "ParagraphChunkProcessor" ->
                [exc |-> NoExc, read |-> TRUE, early |-> FALSE,
                 units |-> split_into_paragraphs(read_text(f)), offsets |-> <<>>]
           [] cls = "HybridChunkProcessor" ->
                [exc |-> NoExc, read |-> TRUE, early |-> FALSE,
                 units |-> regex_sentence_split(read_text(f)), offsets |-> <<>>]
           [] cls = "ParagraphSlidingChunkProcessor" ->
                LET paras == paragraphs_from_text(read_text(f))
                IN  IF Len(paras) = 0
                    THEN [exc |-> NoExc, read |-> TRUE, early |-> TRUE,
                          units |-> paras, offsets |-> <<>>]
                    ELSE [exc |-> ParaSlideConfigError(p), read |-> TRUE,
                          early |-> FALSE,
                          units |-> paras, offsets |-> CumOffsets(paras, 0)]

LoopStart == [start |-> 0, chunk_idx |-> 0, all_chunks |-> <<>>]

-----------------------------------------------------------------------------
(* The inputs of the model *)

ExistingFile(t) == [name |-> "01_story.txt", exists |-> TRUE, content |-> t]

MissingFile == [name |-> "01_story.txt", exists |-> FALSE, content |-> <<>>]

FilesOf(texts) == {ExistingFile(t) : t \in texts} \cup {MissingFile}

Alphabet == {"a", "b"}

\* a text of 10 characters (Example 1 of the specification)
Example1Text == <<"a", "b", "c", "d", "e", "f", "g", "h", "i", "j">>

CharTexts == SeqsUpTo(Alphabet, MaxTextLen) \cup {Example1Text}

\* the texts made of up to n of the given pieces
TextsOf(pieces, n) == {Join(<<>>, ps) : ps \in SeqsUpTo(pieces, n)}

SentencePieces ==
    {<<"A", "b", ".">>, <<"c", "d", "e", "f", "?">>, <<" ">>, <<"\n">>, <<"\r">>,
     <<"\"">>}

\* "Hello world. This is a test." (Example 2 of the specification)
Example2Text ==
    <<"H", "e", "l", "l", "o", " ", "w", "o", "r", "l", "d", ".", " ",
      "T", "h", "i", "s", " ", "i", "s", " ", "a", " ", "t", "e", "s", "t", ".">>

\* "Para one.\n\nPara two."
Example3Text ==
    <<"P", "a", "r", "a", " ", "o", "n", "e", ".", "\n", "\n",
      "P", "a", "r", "a", " ", "t", "w", "o", ".">>

SentenceTexts == TextsOf(SentencePieces, MaxPieces) \cup {Example2Text, Example3Text}

\* a sentence of 3 and one of 6 characters, each with its separator
HybridPieces ==
    {<<"A", "b", ".", " ">>, <<"C", "d", "e", "f", "g", "?", "\n">>}

HybridTexts == TextsOf(HybridPieces, MaxHybridPieces)

HybridMaxChars == {3, 7, 10}

\* n copies of the character c
Repeat(c, n) == [i \in 1..n |-> c]

\* source paragraphs of 30, 29 and 40 characters: at, below and above the merge
\* threshold
SourceParas == {Repeat("p", MergeThreshold), Repeat("q", MergeThreshold - 1),
                Repeat("r", MergeThreshold + 10)}

\* a blank line, which separates two paragraphs, and a line break, which does not
ParaSeparators == {<<"\n", "\n">>, <<"\n">>}

\* paragraph k of ps followed by separator k of seps, for k in order
RECURSIVE Interleave(_, _)
Interleave(ps, seps) ==
    IF ps = <<>> THEN <<>>
    ELSE IF Len(ps) = 1 THEN Head(ps)
         ELSE Head(ps) \o Head(seps) \o Interleave(Tail(ps), Tail(seps))

ParaSlideTexts ==
    UNION {{Interleave(ps, seps) : ps \in [1..k -> SourceParas],
                                   seps \in [1..(k - 1) -> ParaSeparators]} :
           k \in 0..MaxParas}

ParaSlideWindows == {20, 30, 62, 100}

ParaSlideStrides == {1, 32, 64, 150}

FixedInputs ==
    {[cls |-> "FixedChunkProcessor",
      payload |-> FixedChunkRequest(Str("fixed"), cs, ov), file |-> f] :
        cs \in 0..MaxSize, ov \in (-1)..MaxSize, f \in FilesOf(CharTexts)}

SlidingInputs ==
    {[cls |-> "SlidingWindowChunkProcessor",
      payload |-> SlidingWindowChunkRequest(Str("sliding_window"), ws, st), file |-> f] :
        ws \in 0..MaxSize, st \in 0..MaxSize, f \in FilesOf(CharTexts)}

SentenceInputs ==
    {[cls |-> "SentenceChunkProcessor",
      payload |-> GenericChunkRequest(GenericChunkType("sentence")), file |-> f] :
        f \in FilesOf(SentenceTexts)}

ParagraphInputs ==
    {[cls |-> "ParagraphChunkProcessor",
      payload |-> GenericChunkRequest(GenericChunkType("paragraph")), file |-> f] :
        f \in FilesOf(SentenceTexts)}

\* every valid configuration of the ranges, and those with one invalid parameter
HybridPayloads ==
    {HybridChunkRequest(Str("hybrid"), mc, ms, ov, mn) :
        mc \in HybridMaxChars, ms \in 1..MaxSentences, ov \in 0..MaxOverlap,
        mn \in 1..MaxOverlap}
    \cup {HybridChunkRequest(Str("hybrid"), mc, 1, 0, 1) : mc \in {-1, 0}}
    \cup {HybridChunkRequest(Str("hybrid"), 7, ms, 0, 1) : ms \in {-1, 0}}
    \cup {HybridChunkRequest(Str("hybrid"), 7, 1, -1, 1)}
    \cup {HybridChunkRequest(Str("hybrid"), 7, 1, 0, mn) : mn \in {-1, 0}}

\* a sentence of 20 characters
Sentence20 == <<"A">> \o Repeat("a", 18) \o <<".">>

\* Example 4 of the specification: 5 sentences of 20 characters each, max_chars=45,
\* max_sentences=10, min_sentences=1, overlap_sentences=1
Example4Text == Join(<<" ">>, [k \in 1..5 |-> Sentence20])

Example4Payload == HybridChunkRequest(Str("hybrid"), 45, 10, 1, 1)

HybridInputs ==
    {[cls |-> "HybridChunkProcessor", payload |-> p, file |-> f] :
        p \in HybridPayloads, f \in FilesOf(HybridTexts)}
    \cup {[cls |-> "HybridChunkProcessor", payload |-> Example4Payload,
           file |-> ExistingFile(Example4Text)]}

\* every valid configuration of the two sets, and those with an invalid parameter
ParaSlidePayloads ==
    {SlidingWindowChunkRequest(Str("sliding_paragraph"), ws, st) :
        ws \in ParaSlideWindows, st \in ParaSlideStrides}
    \cup {SlidingWindowChunkRequest(Str("sliding_paragraph"), ws, 1) : ws \in {-1, 0}}
    \cup {SlidingWindowChunkRequest(Str("sliding_paragraph"), 30, st) : st \in {-1, 0}}

ParaSlideInputs ==
    {[cls |-> "ParagraphSlidingChunkProcessor", payload |-> p, file |-> f] :
        p \in ParaSlidePayloads, f \in FilesOf(ParaSlideTexts)}

\* requests whose type names no strategy; such a request is only ever dispatched
UnknownInputs ==
    {[cls |-> "None",
      payload |-> FixedChunkRequest(Str("unknown"), cs, 0), file |-> f] :
        cs \in 1..MaxSize, f \in FilesOf(CharTexts)}

Inputs == FixedInputs \cup SlidingInputs \cup SentenceInputs \cup ParagraphInputs
          \cup HybridInputs \cup ParaSlideInputs \cup UnknownInputs

-----------------------------------------------------------------------------
(* One call: through ChunkPlugin.process_chunk, or of a chunker directly *)

NoResponse == [status_code |-> 0]

BatchIdle ==
    /\ text_files = <<>>
    /\ cpu_count = 1
    /\ task = <<>>
    /\ file_result = <<>>
    /\ results = <<>>
    /\ response = NoResponse
    /\ bpc = "idle"

Init ==
    /\ \E inp \in Inputs :
        /\ payload = inp.payload
        /\ file = inp.file
        /\ \/ processor = "None" /\ pc = "dispatch"
           \/ inp.cls # "None" /\ processor = inp.cls /\ pc = "construct"
    /\ self_ = NoSelf
    /\ file_read = FALSE
    /\ units = <<>>
    /\ cum_offsets = <<>>
    /\ cursor = 0
    /\ chunk_idx = 0
    /\ all_chunks = <<>>
    /\ raised = NoExc
    /\ starts = <<>>
    /\ BatchIdle

\* process_chunk, lines 24-39: pick the processor class or raise
Dispatch ==
    /\ pc = "dispatch"
    /\ IF processor_cls(payload.type) = "None"
       THEN /\ pc' = "raised"
            /\ raised' = UnsupportedChunkType(payload.type)
            /\ UNCHANGED processor
       ELSE /\ pc' = "construct"
            /\ processor' = processor_cls(payload.type)
            /\ UNCHANGED raised
    /\ UNCHANGED <<payload, file, self_, file_read, units, cum_offsets, cursor,
                   chunk_idx, all_chunks, starts>>
    /\ UNCHANGED batchVars

\* processor_cls(payload.chunking)
Construct ==
    /\ pc = "construct"
    /\ IF ConstructError(processor, payload) # NoExc
       THEN /\ pc' = "raised"
            /\ raised' = ConstructError(processor, payload)
            /\ UNCHANGED self_
       ELSE /\ pc' = "open"
            /\ self_' = Constructed(processor, payload)
            /\ UNCHANGED raised
    /\ UNCHANGED <<payload, file, processor, file_read, units, cum_offsets, cursor,
                   chunk_idx, all_chunks, starts>>
    /\ UNCHANGED batchVars

\* process() from its first line to the head of its loop
Open ==
    /\ pc = "open"
    /\ LET r == Prologue(processor, self_.payload, file)
       IN  /\ file_read' = r.read
           /\ units' = r.units
           /\ cum_offsets' = r.offsets
           /\ raised' = r.exc
           /\ pc' = IF r.exc # NoExc THEN "raised"
                    ELSE IF r.early THEN "done" ELSE "loop"
    /\ cursor' = LoopStart.start
    /\ chunk_idx' = LoopStart.chunk_idx
    /\ all_chunks' = LoopStart.all_chunks
    /\ UNCHANGED <<payload, file, processor, self_, starts>>
    /\ UNCHANGED batchVars

LoopState == [start |-> cursor, chunk_idx |-> chunk_idx, all_chunks |-> all_chunks]

\* the loop is at its head, in the given class, and its condition holds
AtLoop(cls) == pc = "loop" /\ processor = cls /\ cursor < Len(units)

Iterate(s) ==
    /\ cursor' = s.start
    /\ chunk_idx' = s.chunk_idx
    /\ all_chunks' = s.all_chunks
    /\ starts' = Append(starts, cursor)
    /\ UNCHANGED <<payload, file, processor, self_, pc, file_read, units, cum_offsets,
                   raised>>
    /\ UNCHANGED batchVars

FixedStep ==
    /\ AtLoop("FixedChunkProcessor")
    /\ Iterate(FixedIter(self_.payload, file.name, units, LoopState))

SlidingStep ==
    /\ AtLoop("SlidingWindowChunkProcessor")
    /\ Iterate(SlidingIter(self_.payload, file.name, units, LoopState))

SentenceStep ==
    /\ AtLoop("SentenceChunkProcessor")
    /\ Iterate(SentenceIter(file.name, units, LoopState))

ParagraphStep ==
    /\ AtLoop("ParagraphChunkProcessor")
    /\ Iterate(ParagraphIter(file.name, units, LoopState))

\* uuid4().hex[:8] for the next chunk: one of 16^8 values.  Only which draws are
\* equal tells two calls apart, so a draw is named by its first appearance in the
\* call: one of the values drawn so far, or the next new one.
UuidHex(chunks) == 0..Cardinality({chunks[k].id : k \in DOMAIN chunks})

HybridStep ==
    /\ AtLoop("HybridChunkProcessor")
    /\ \E uid \in UuidHex(all_chunks) :
        Iterate(HybridIter(self_, file.name, units, LoopState, uid))

ParaSlideStep ==
    /\ AtLoop("ParagraphSlidingChunkProcessor")
    /\ Iterate(ParaSlideIter(self_.payload, file.name, units, cum_offsets, LoopState))

\* the loop condition fails: process() returns all_chunks
Return ==
    /\ pc = "loop"
    /\ ~(cursor < Len(units))
    /\ pc' = "done"
    /\ UNCHANGED <<payload, file, processor, self_, file_read, units, cum_offsets,
                   cursor, chunk_idx, all_chunks, raised, starts>>
    /\ UNCHANGED batchVars

Next ==
    \/ Dispatch
    \/ Construct
    \/ Open
    \/ FixedStep
    \/ SlidingStep
    \/ SentenceStep
    \/ ParagraphStep
    \/ HybridStep
    \/ ParaSlideStep
    \/ Return

Spec == Init /\ [][Next]_vars

-----------------------------------------------------------------------------
(* A whole call of process() and of process_chunk, as _process_file makes it *)

\* one iteration of the loop of the given class
LoopIter(cls, self, name, loop_units, offsets, s, uid) ==
    CASE cls = "FixedChunkProcessor" -> FixedIter(self.payload, name, loop_units, s)
      [] cls = "SlidingWindowChunkProcessor" ->
            SlidingIter(self.payload, name, loop_units, s)
      [] cls = "SentenceChunkProcessor" -> SentenceIter(name, loop_units, s)
      [] cls = "ParagraphChunkProcessor" -> ParagraphIter(name, loop_units, s)
      [] cls = "HybridChunkProcessor" -> HybridIter(self, name, loop_units, s, uid)
      [] cls = "ParagraphSlidingChunkProcessor" ->
            ParaSlideIter(self.payload, name, loop_units, offsets, s)

\* the loop run to its end; draw[k] is the uuid drawn for chunk k
RECURSIVE RunLoop(_, _, _, _, _, _, _)
RunLoop(cls, self, name, loop_units, offsets, s, draw) ==
    IF s.start < Len(loop_units)
    THEN RunLoop(cls, self, name, loop_units, offsets,
                 LoopIter(cls, self, name, loop_units, offsets, s, draw[s.chunk_idx]),
                 draw)
    ELSE s.all_chunks

\* cls(p).process(f): the exception raised, or NoExc and the list returned
process(cls, p, f, draw) ==
    IF ConstructError(cls, p) # NoExc
    THEN [exc |-> ConstructError(cls, p), ret |-> <<>>]
    ELSE LET r == Prologue(cls, p, f)
         IN  IF r.exc # NoExc THEN [exc |-> r.exc, ret |-> <<>>]
             ELSE IF r.early THEN [exc |-> NoExc, ret |-> <<>>]
             ELSE [exc |-> NoExc,
                   ret |-> RunLoop(cls, Constructed(cls, p), f.name, r.units,
                                   r.offsets, LoopStart, draw)]

\* ChunkPlugin().process_chunk(payload, f), src/text_chunk/__init__.py lines 19-43
process_chunk(p, f, draw) ==
    IF processor_cls(p.type) = "None"
    THEN [exc |-> UnsupportedChunkType(p.type), ret |-> <<>>]
    ELSE process(processor_cls(p.type), p, f, draw)

-----------------------------------------------------------------------------
(* The batch endpoint, src/main.py *)

\* the "error" of a file's dict: None, or str(exc)
NoError == [is_none |-> TRUE, str |-> ""]

ErrorStr(m) == [is_none |-> FALSE, str |-> m]

\* str(exc); for HTTPException, Starlette's "{status_code}: {detail}"
StrOfExc(exc) ==
    IF exc.cls = "HTTPException"
    THEN ToString(exc.status_code) \o ": " \o exc.msg
    ELSE exc.msg

\* "if r['error']": neither None nor the empty string
Truthy(error) == ~error.is_none /\ error.str # ""

\* what a future holds once its worker is done: the exception that left the worker, or
\* NoExc and the value returned
Returned(v) == [exc |-> NoExc, value |-> v]

\* mutant: the worker does not catch what process_chunk raises
process_file_NoCatch(p, f) ==
    LET r == process_chunk(p, f, [k \in Nat |-> 0])
    IN  IF r.exc = NoExc
        THEN Returned([filename |-> f.name, chunks |-> Len(r.ret), error |-> NoError])
        ELSE [exc |-> r.exc, value |-> "None"]

\* lines 17-32: the worker; every Exception of process_chunk is caught.  The chunk
\* count does not depend on the uuids drawn, so one draw stands for all of them.
process_file(p, f) ==
    LET r == process_chunk(p, f, [k \in Nat |-> 0])
    IN  IF r.exc = NoExc
        THEN Returned([filename |-> f.name, chunks |-> Len(r.ret), error |-> NoError])
        ELSE Returned([filename |-> f.name, chunks |-> 0,
                       error |-> ErrorStr(StrOfExc(r.exc))])

\* the two numbers of line 53
PoolCap == 32

ThreadsPerCpu == 5

\* mutant: the pool is not limited by the CPU count
max_workers_NoCpuLimit(n_files, cpus) == Min(PoolCap, n_files)

\* line 53
max_workers(n_files, cpus) == Min(Min(PoolCap, n_files), cpus * ThreadsPerCpu)

RECURSIVE SumChunks(_)
SumChunks(rs) == IF rs = <<>> THEN 0 ELSE Head(rs).chunks + SumChunks(Tail(rs))

\* mutant: the two statuses are swapped
status_Swapped(errors) == IF errors = <<>> THEN 207 ELSE 200

\* "if not errors" of line 80
status(errors) == IF errors = <<>> THEN 200 ELSE 207

\* lines 66-81
BuildResponse(files, rs) ==
    LET errors == SelectSeq(rs, LAMBDA r : Truthy(r.error))
    IN  [status_code |-> status(errors),
         file_results |-> rs,
         total_files |-> Len(files),
         total_chunks |-> SumChunks(rs),
         errors |-> errors]

\* line 49
NotFoundResponse == [status_code |-> 404, detail |-> "no text files found"]

\* a future's worker raised: fut.result() re-raises and the endpoint fails
ServerErrorResponse == [status_code |-> 500]

BatchNames == <<"01_a.txt", "02_b.txt", "03_c.txt", "04_d.txt", "05_e.txt",
                "06_f.txt", "07_g.txt">>

\* a file glob found may be gone when its worker runs
BatchContents ==
    {[exists |-> FALSE, content |-> <<>>],
     [exists |-> TRUE, content |-> <<"A", "b", ".", " ">>],
     [exists |-> TRUE, content |-> <<"A", "b", ".", " ", "C", "d", "e", "f", "g", "?">>]}

BatchFile(k, c) == [name |-> BatchNames[k], exists |-> c.exists, content |-> c.content]

\* up to MaxFiles files of any content
BatchFileLists ==
    {[k \in 1..n |-> BatchFile(k, cs[k])] :
        n \in 0..MaxFiles, cs \in [1..MaxFiles -> BatchContents]}

\* batches of up to MaxBatch readable files: more files than the pool has threads
PoolFileLists ==
    {[k \in 1..n |-> BatchFile(k, [exists |-> TRUE,
                                   content |-> <<"A", "b", ".", " ">>])] :
        n \in 1..MaxBatch}

BatchPayloads ==
    {FixedChunkRequest(Str("fixed"), 4, 1),
     FixedChunkRequest(Str("fixed"), 0, 0),
     FixedChunkRequest(Str("unknown"), 4, 1),
     GenericChunkRequest(GenericChunkType("sentence")),
     SlidingWindowChunkRequest(Str("sliding_window"), 3, 2),
     SlidingWindowChunkRequest(Str("sliding_paragraph"), 30, 1),
     HybridChunkRequest(Str("hybrid"), 7, 1, 0, 1)}

ChunkIdle ==
    /\ file = MissingFile
    /\ processor = "None"
    /\ self_ = NoSelf
    /\ pc = "idle"
    /\ file_read = FALSE
    /\ units = <<>>
    /\ cum_offsets = <<>>
    /\ cursor = 0
    /\ chunk_idx = 0
    /\ all_chunks = <<>>
    /\ raised = NoExc
    /\ starts = <<>>

NoResult == [exc |-> NoExc, value |-> "None"]

InitBatch ==
    /\ payload \in BatchPayloads
    /\ text_files \in BatchFileLists \cup PoolFileLists
    /\ cpu_count \in 1..MaxCpus
    /\ task = [k \in 1..Len(text_files) |-> "new"]
    /\ file_result = [k \in 1..Len(text_files) |-> NoResult]
    /\ results = <<>>
    /\ response = NoResponse
    /\ bpc = "glob"
    /\ ChunkIdle

\* lines 47-49: no file, 404
NoFiles ==
    /\ bpc = "glob"
    /\ text_files = <<>>
    /\ response' = NotFoundResponse
    /\ bpc' = "done"
    /\ UNCHANGED <<text_files, cpu_count, task, file_result, results>>
    /\ UNCHANGED chunkVars

\* lines 51-56: the pool is created
OpenPool ==
    /\ bpc = "glob"
    /\ text_files # <<>>
    /\ bpc' = "submit"
    /\ UNCHANGED <<text_files, cpu_count, task, file_result, results, response>>
    /\ UNCHANGED chunkVars

\* line 58: executor.submit for the next file, in the order of text_files
Submit(k) ==
    /\ bpc = "submit"
    /\ task[k] = "new"
    /\ \A i \in 1..(k - 1) : task[i] # "new"
    /\ task' = [task EXCEPT ![k] = "pending"]
    /\ bpc' = IF k = Len(text_files) THEN "collect" ELSE "submit"
    /\ UNCHANGED <<text_files, cpu_count, file_result, results, response>>
    /\ UNCHANGED chunkVars

Running == {k \in DOMAIN task : task[k] = "running"}

\* a pool thread takes the oldest queued task; the pool has max_workers threads
WorkerStart(k) ==
    /\ task[k] = "pending"
    /\ \A i \in 1..(k - 1) : task[i] # "pending"
    /\ Cardinality(Running) < max_workers(Len(text_files), cpu_count)
    /\ task' = [task EXCEPT ![k] = "running"]
    /\ UNCHANGED <<text_files, cpu_count, file_result, results, response, bpc>>
    /\ UNCHANGED chunkVars

\* the worker runs _process_file(payload, f) to its end
WorkerFinish(k) ==
    /\ task[k] = "running"
    /\ task' = [task EXCEPT ![k] = "finished"]
    /\ file_result' = [file_result EXCEPT ![k] = process_file(payload, text_files[k])]
    /\ UNCHANGED <<text_files, cpu_count, results, response, bpc>>
    /\ UNCHANGED chunkVars

\* lines 61-63: as_completed yields a finished future; fut.result() is appended, or
\* re-raises what the worker raised
Collect(k) ==
    /\ bpc = "collect"
    /\ task[k] = "finished"
    /\ task' = [task EXCEPT ![k] = "collected"]
    /\ IF file_result[k].exc = NoExc
       THEN /\ results' = Append(results, file_result[k].value)
            /\ UNCHANGED <<response, bpc>>
       ELSE /\ response' = ServerErrorResponse
            /\ bpc' = "done"
            /\ UNCHANGED results
    /\ UNCHANGED <<text_files, cpu_count, file_result>>
    /\ UNCHANGED chunkVars

\* lines 65-81: every future was yielded; the summary is built and returned
Respond ==
    /\ bpc = "collect"
    /\ \A k \in DOMAIN task : task[k] = "collected"
    /\ response' = BuildResponse(text_files, results)
    /\ bpc' = "done"
    /\ UNCHANGED <<text_files, cpu_count, task, file_result, results>>
    /\ UNCHANGED chunkVars

NextBatch ==
    \/ NoFiles
    \/ OpenPool
    \/ \E k \in DOMAIN task : Submit(k)
    \/ \E k \in DOMAIN task : WorkerStart(k)
    \/ \E k \in DOMAIN task : WorkerFinish(k)
    \/ \E k \in DOMAIN task : Collect(k)
    \/ Respond

SpecBatch == InitBatch /\ [][NextBatch]_vars

-----------------------------------------------------------------------------
(* Properties of one call (checked under Spec) *)

\* C1: at every point of a process() call, and so in the list it returns, the
\* chunk_index of the k-th chunk emitted is k - 1: the values are 0, 1, ..., n-1 in
\* emission order, for every chunker.
C1_ChunkIndexContiguous ==
    \A k \in 1..Len(all_chunks) : all_chunks[k].chunk_index = k - 1

\* a paragraph-sliding call that returned at least three chunks
C1_Witness ==
    /\ pc = "done"
    /\ processor = "ParagraphSlidingChunkProcessor"
    /\ Len(all_chunks) >= 3

CursorClasses == {"FixedChunkProcessor", "SlidingWindowChunkProcessor",
                  "HybridChunkProcessor", "ParagraphSlidingChunkProcessor"}

\* C2: in the loops of the fixed, sliding-window, hybrid and paragraph-sliding
\* chunkers every iteration leaves the cursor strictly greater than it found it, so
\* the cursor at the head of an iteration exceeds the one at the head of the
\* previous iteration and no chunk starts before the previous chunk's start.
C2_CursorStrictlyAdvances ==
    [][(processor \in CursorClasses /\ starts' # starts) => cursor' > cursor]_vars

\* a hybrid call that has run two iterations over sentences of which one is longer
\* than max_chars
C2_Witness ==
    /\ processor = "HybridChunkProcessor"
    /\ Len(starts) >= 2
    /\ starts[1] < starts[2]
    /\ \E k \in 1..Len(units) : Len(units[k]) > self_.max_chars

\* C3: the fixed and sliding-window loops run at most len(text) iterations, each
\* emitting one chunk, and once len(text) iterations have run the loop condition is
\* false: the call terminates with at most len(text) chunks, none for an empty text.
C3_AtMostTextLengthIterations ==
    (processor \in {"FixedChunkProcessor", "SlidingWindowChunkProcessor"}
     /\ pc \in {"loop", "done"})
    => /\ Len(starts) <= Len(units)
       /\ Len(all_chunks) = Len(starts)
       /\ (Len(starts) = Len(units) => ~(cursor < Len(units)))

\* a sliding-window call with stride 1 that returned after len(text) iterations
C3_Witness ==
    /\ processor = "SlidingWindowChunkProcessor"
    /\ pc = "done"
    /\ payload.stride = 1
    /\ Len(units) >= 3
    /\ Len(starts) = Len(units)

\* the end offset of the k-th chunk of a fixed call
ChunkEnd(k) == starts[k] + Len(all_chunks[k].text)

\* the part of the k-th chunk that lies beyond the end of the chunk before it
NewPart(k) ==
    IF k = 1 THEN all_chunks[1].text
    ELSE Slice(all_chunks[k].text, Max(0, ChunkEnd(k - 1) - starts[k]),
               Len(all_chunks[k].text))

RECURSIVE NewParts(_)
NewParts(k) == IF k = 0 THEN <<>> ELSE NewParts(k - 1) \o NewPart(k)

\* C4: in a fixed call no chunk starts after the end of the chunk before it, every
\* chunk is the slice of the text at its start, and when the call returns the parts
\* of the chunks that lie beyond the previous chunk's end, concatenated in emission
\* order, are the text.
C4_FixedReconstructsText ==
    (processor = "FixedChunkProcessor" /\ pc \in {"loop", "done"})
    => /\ \A k \in 2..Len(all_chunks) : starts[k] <= ChunkEnd(k - 1)
       /\ \A k \in 1..Len(all_chunks) :
            all_chunks[k].text = Slice(units, starts[k], ChunkEnd(k))
       /\ pc = "done" => NewParts(Len(all_chunks)) = units

\* a fixed call with an overlap that returned at least three chunks
C4_Witness ==
    /\ processor = "FixedChunkProcessor"
    /\ pc = "done"
    /\ payload.overlap > 0
    /\ Len(all_chunks) >= 3
    /\ Len(units) > payload.chunk_size

IsExample1 ==
    /\ processor = "FixedChunkProcessor"
    /\ file = ExistingFile(Example1Text)
    /\ payload.chunk_size = 4
    /\ payload.overlap = 1

\* C5: the fixed chunker on a text of 10 characters with chunk_size=4 and overlap=1
\* returns exactly the 3 chunks text[0:4], text[3:7] and text[6:10].
C5_Example1ThreeChunks ==
    (IsExample1 /\ pc = "done")
    => /\ Len(all_chunks) = 3
       /\ all_chunks[1].text = Slice(Example1Text, 0, 4)
       /\ all_chunks[2].text = Slice(Example1Text, 3, 7)
       /\ all_chunks[3].text = Slice(Example1Text, 6, 10)

StrategyNames == {"fixed", "sentence", "paragraph", "sliding_window",
                  "sliding_paragraph", "hybrid"}

ProcessorOf(name) ==
    CASE name = "fixed" -> "FixedChunkProcessor"
      [] name = "sentence" -> "SentenceChunkProcessor"
      [] name = "paragraph" -> "ParagraphChunkProcessor"
      [] name = "sliding_window" -> "SlidingWindowChunkProcessor"
      [] name = "sliding_paragraph" -> "ParagraphSlidingChunkProcessor"
      [] name = "hybrid" -> "HybridChunkProcessor"

\* C6: once process_chunk has picked the processor, a request of any of the six
\* types, a sentence or paragraph request (a GenericChunkType member) included, has
\* the chunker of its type and not the unsupported-type error.
C6_DispatchReachesChunker ==
    (pc # "dispatch" /\ payload.type.value \in StrategyNames)
    => /\ processor = ProcessorOf(payload.type.value)
       /\ raised # UnsupportedChunkType(payload.type)

\* C7: a request whose type is a str naming none of the six strategies ends in the
\* unsupported-type error, status 400, with no chunker constructed, the file not
\* read and no chunk emitted.
C7_UnknownTypeRaises400 ==
    (pc # "dispatch" /\ payload.type.kind = "str"
     /\ payload.type.value \notin StrategyNames)
    => /\ pc = "raised"
       /\ raised.cls = "HTTPException"
       /\ raised.status_code = 400
       /\ processor = "None"
       /\ self_ = NoSelf
       /\ ~file_read
       /\ all_chunks = <<>>

\* the dispatcher raised for type "unknown" although the file exists
C7_Witness ==
    /\ pc = "raised"
    /\ payload.type = Str("unknown")
    /\ file.exists
    /\ file.content # <<>>

-----------------------------------------------------------------------------
(* Properties of the batch endpoint (checked under SpecBatch) *)

\* the request names no strategy, or its parameters are invalid
BadRequest ==
    \/ payload.type.kind = "str" /\ payload.type.value \notin StrategyNames
    \/ payload.cls = "FixedChunkRequest" /\ payload.type = Str("fixed")
       /\ (payload.chunk_size <= 0 \/ payload.overlap < 0
           \/ payload.overlap >= payload.chunk_size)

\* C8: the batch endpoint answers a request whose chunk type is unsupported, or whose
\* chunker parameters are invalid, with a client-error status (4xx).
C8_BadRequestIsClientError ==
    (bpc = "done" /\ BadRequest) => response.status_code \in 400..499

\* the entries of file_results for the file of the given name
EntriesOf(name) ==
    {i \in 1..Len(response.file_results) : response.file_results[i].filename = name}

\* the entry of file k is what processing file k alone gives: its chunk count and no
\* error, or its error and chunks = 0
OwnEntry(k, e) ==
    LET r == process_chunk(payload, text_files[k], [i \in Nat |-> 0])
    IN  IF r.exc = NoExc
        THEN e.chunks = Len(r.ret) /\ e.error.is_none
        ELSE e.chunks = 0 /\ ~e.error.is_none /\ e.error.str = StrOfExc(r.exc)

\* C9: whatever the interleaving of the workers, the batch ends with a response whose
\* file_results has exactly one entry per discovered file, and every file's entry is
\* the outcome of that file alone: a failing file's entry carries its error with
\* chunks = 0, every other entry its own chunk count and no error.
C9_FailuresIsolatedPerFile ==
    (bpc = "done" /\ text_files # <<>>)
    => /\ response.status_code \in {200, 207}
       /\ Len(response.file_results) = Len(text_files)
       /\ \A k \in 1..Len(text_files) :
            /\ Cardinality(EntriesOf(text_files[k].name)) = 1
            /\ \A i \in EntriesOf(text_files[k].name) :
                 OwnEntry(k, response.file_results[i])

\* 3 files of which exactly 1 is missing, under a valid request: 2 successes, 1
\* error entry, status 207, the failing file finished first
C9_Witness ==
    /\ bpc = "done"
    /\ payload = FixedChunkRequest(Str("fixed"), 4, 1)
    /\ Len(text_files) = 3
    /\ Cardinality({k \in 1..3 : ~text_files[k].exists}) = 1
    /\ response.status_code = 207
    /\ Len(response.errors) = 1
    /\ Cardinality({i \in 1..3 : response.file_results[i].error.is_none
                                  /\ response.file_results[i].chunks > 0}) = 2
    /\ ~response.file_results[1].error.is_none

\* C10: the status is 404 exactly when no file was discovered, 200 exactly when at
\* least one file was processed and no entry reports an error, 207 exactly when
\* some entry reports an error; total_chunks is the sum of the entries' chunk counts
\* and total_files the number of entries.
C10_StatusAndTotals ==
    bpc = "done"
    => /\ response.status_code = 404 <=> text_files = <<>>
       /\ response.status_code # 404
          => LET rs == response.file_results
                 failed == {i \in 1..Len(rs) : ~rs[i].error.is_none}
             IN  /\ response.status_code = 200 <=> (Len(rs) >= 1 /\ failed = {})
                 /\ response.status_code = 207 <=> failed # {}
                 /\ response.total_chunks = SumSeq([i \in 1..Len(rs) |-> rs[i].chunks])
                 /\ response.total_files = Len(rs)

\* a partial success: an entry with an error beside an entry with chunks
C10_Witness ==
    /\ bpc = "done"
    /\ response.status_code = 207
    /\ response.total_files = 3
    /\ response.total_chunks > 2
    /\ Len(response.errors) = 1

\* C11: the summary of the batch endpoint is built only once every submitted worker
\* has finished and its result was collected (no worker is new, pending or running when
\* the 200/207 response exists), and at no time do more workers run than
\* min(32, number of files, 5 x CPU count).
C11_AggregateAfterAllWorkers ==
    /\ response.status_code \in {200, 207} =>
           /\ \A k \in DOMAIN task : task[k] = "collected"
           /\ Len(results) = Len(text_files)
    /\ Cardinality(Running) <= Min(32, Min(Len(text_files), 5 * cpu_count))

\* the summary of a batch with more files than the pool may run at once
C11_Witness ==
    /\ response.status_code \in {200, 207}
    /\ Len(text_files) > 5 * cpu_count
    /\ response.total_files = Len(text_files)

-----------------------------------------------------------------------------
(* Further properties of one call (checked under Spec) *)

\* the sentences the k-th hybrid chunk was grouped from, and the index after them
HybridGroupOf(k) == HybridGroup(self_, units, starts[k])

\* C12: every hybrid chunk emitted holds at most max_sentences sentences, and its text
\* is at most max_chars long unless the chunk is one sentence that is itself longer
\* than max_chars; for every valid max_chars, max_sentences, overlap_sentences and
\* min_sentences.
C12_HybridChunkWithinLimits ==
    processor = "HybridChunkProcessor" =>
        \A k \in 1..Len(all_chunks) :
            LET sents == HybridGroupOf(k).current_sentences
            IN  /\ Len(sents) <= self_.max_sentences
                /\ \/ Len(all_chunks[k].text) <= self_.max_chars
                   \/ Len(sents) = 1 /\ Len(sents[1]) > self_.max_chars

\* C12 (amended): every hybrid chunk emitted holds at most max_sentences sentences, and
\* its text is at most max_chars long unless the chunk holds no more than
\* min_sentences sentences (with min_sentences = 1: one sentence that is itself longer
\* than max_chars).
C12_HybridChunkWithinLimitsUnlessMin ==
    processor = "HybridChunkProcessor" =>
        \A k \in 1..Len(all_chunks) :
            LET sents == HybridGroupOf(k).current_sentences
            IN  /\ Len(sents) <= self_.max_sentences
                /\ \/ Len(all_chunks[k].text) <= self_.max_chars
                   \/ Len(sents) <= self_.min_sentences
                /\ Len(sents) = 1 /\ Len(all_chunks[k].text) > self_.max_chars
                       => Len(sents[1]) > self_.max_chars

\* a chunk of two sentences, the minimum asked for, that is longer than max_chars, and
\* a later chunk that stopped at max_sentences
C12_Witness ==
    /\ processor = "HybridChunkProcessor"
    /\ Len(all_chunks) >= 2
    /\ Len(HybridGroupOf(1).current_sentences) = 2
    /\ self_.min_sentences = 2
    /\ Len(all_chunks[1].text) > self_.max_chars
    /\ Len(HybridGroupOf(2).current_sentences) = self_.max_sentences

IsExample4 ==
    /\ processor = "HybridChunkProcessor"
    /\ payload = Example4Payload
    /\ file = ExistingFile(Example4Text)

\* C13: after the hybrid chunker closes a chunk covering sentences [i, j), the next
\* chunk starts at j - overlap_sentences when that is greater than i, and at j
\* otherwise; in Example 4 (5 sentences of 20 characters, max_chars=45,
\* max_sentences=10, min_sentences=1, overlap_sentences=1) the first chunk holds
\* sentences 0 and 1 and the second chunk starts at sentence index 1.
C13_HybridNextStart ==
    /\ processor = "HybridChunkProcessor" =>
           \A k \in 1..Len(starts) :
               LET i == starts[k]
                   j == HybridGroupOf(k).j
                   next == IF k < Len(starts) THEN starts[k + 1] ELSE cursor
               IN  next = IF j - self_.overlap_sentences > i
                          THEN j - self_.overlap_sentences
                          ELSE j
    /\ IsExample4 /\ Len(all_chunks) >= 1 =>
           /\ HybridGroupOf(1).j = 2
           /\ all_chunks[1].text = Sentence20 \o <<" ">> \o Sentence20
           /\ cursor >= 1
           /\ Len(starts) >= 2 => starts[2] = 1

\* Example 4 after its second chunk: that chunk started at sentence index 1
C13_Witness ==
    /\ IsExample4
    /\ Len(all_chunks) >= 2
    /\ starts[2] = 1
    /\ HybridGroupOf(1).j - self_.overlap_sentences > starts[1]

\* C14: every chunk of the paragraph-sliding chunker holds at least one paragraph, and
\* its text is at most window_size characters long: a first paragraph that alone is
\* longer than window_size is cut to window_size characters.
C14_ParaSlideTextWithinWindow ==
    processor = "ParagraphSlidingChunkProcessor" =>
        \A k \in 1..Len(all_chunks) :
            /\ all_chunks[k].paragraph_range[1] <= all_chunks[k].paragraph_range[2]
            /\ all_chunks[k].paragraph_range[1] = starts[k]
            /\ Len(all_chunks[k].text) <= self_.payload.window_size

\* C15: along the chunks the paragraph-sliding chunker emits for one file, char_start
\* never decreases and the first index of paragraph_range never decreases, for every
\* valid window_size and stride.
C15_ParaSlideStartsNonDecreasing ==
    processor = "ParagraphSlidingChunkProcessor" =>
        \A k \in 1..(Len(all_chunks) - 1) :
            /\ all_chunks[k].char_start <= all_chunks[k + 1].char_start
            /\ all_chunks[k].paragraph_range[1] <= all_chunks[k + 1].paragraph_range[1]

\* a finished call that emitted three chunks, the second paragraph longer than the
\* third
C15_Witness ==
    /\ processor = "ParagraphSlidingChunkProcessor"
    /\ pc = "done"
    /\ Len(all_chunks) = 3
    /\ Len(units[2]) > Len(units[3])
    /\ all_chunks[3].char_start > all_chunks[2].char_start

\* the parameters of the request are invalid for the chunker of the given class
InvalidParams(cls, p) ==
    CASE cls = "FixedChunkProcessor" ->
            p.chunk_size <= 0 \/ p.overlap < 0 \/ p.overlap >= p.chunk_size
      [] cls = "SlidingWindowChunkProcessor" -> p.window_size <= 0 \/ p.stride <= 0
      [] cls = "ParagraphSlidingChunkProcessor" -> p.window_size <= 0 \/ p.stride <= 0
      [] cls = "HybridChunkProcessor" ->
            \/ p.max_chars <= 0
            \/ p.max_sentences <= 0
            \/ p.overlap_sentences < 0
            \/ p.min_sentences < 1
      [] OTHER -> FALSE

\* the call is past __init__ and the part of process() before its loop
Decided == pc \in {"raised", "loop", "done"}

\* C16: the fixed, sliding-window and hybrid chunkers reject invalid parameters with
\* a configuration error (ValueError) before any chunk is emitted, whatever the text:
\* the call never reaches its loop or its return, and no chunk list exists beside the
\* error.
C16_InvalidParamsRejected ==
    (/\ processor \in {"FixedChunkProcessor", "SlidingWindowChunkProcessor",
                       "HybridChunkProcessor"}
     /\ InvalidParams(processor, payload)
     /\ file.exists)
    => /\ all_chunks = <<>>
       /\ Decided => pc = "raised" /\ raised.cls = "ValueError"

\* the fixed chunker raised for an overlap equal to chunk_size, on a non-empty text
C16_Witness ==
    /\ processor = "FixedChunkProcessor"
    /\ pc = "raised"
    /\ raised.cls = "ValueError"
    /\ payload.chunk_size > 0
    /\ payload.overlap = payload.chunk_size
    /\ file.exists
    /\ file.content # <<>>

\* C17: the paragraph-sliding chunker raises a configuration error whenever
\* window_size <= 0 or stride <= 0, for every text, one with no paragraph included; it
\* returns the empty list without error only when the parameters are valid.
C17_ParaSlideInvalidParamsRejected ==
    (/\ processor = "ParagraphSlidingChunkProcessor"
     /\ InvalidParams(processor, payload)
     /\ file.exists
     /\ Decided)
    => pc = "raised" /\ raised.cls = "ValueError"

\* C18: every strategy, called with valid parameters on a path that does not exist,
\* directly or through the dispatcher, ends in the source-not-found error
\* (FileNotFoundError) with no chunk emitted.
C18_MissingFileRaisesNotFound ==
    (/\ ~file.exists
     /\ payload.type.value \in StrategyNames
     /\ ~InvalidParams(ProcessorOf(payload.type.value), payload)
     /\ Decided)
    => /\ pc = "raised"
       /\ raised.cls = "FileNotFoundError"
       /\ all_chunks = <<>>

\* the fields of a chunk record that every chunker must set
RequiredFields == {"id", "source", "chunk_index", "text"}

\* C19: every chunk record of every chunker, the paragraph-sliding one included, has
\* the fields id, source, chunk_index and text.
C19_ChunkRecordFields ==
    \A k \in 1..Len(all_chunks) : RequiredFields \subseteq DOMAIN all_chunks[k]

\* C20: no two chunks of the list of one process() call have the same id, whatever
\* the random uuids drawn by the hybrid chunker.
C20_ChunkIdsDistinct ==
    \A i, j \in 1..Len(all_chunks) :
        (i # j /\ "id" \in DOMAIN all_chunks[i] /\ "id" \in DOMAIN all_chunks[j])
        => all_chunks[i].id # all_chunks[j].id

\* C21: the k-th chunk (k = 0, 1, ...) of the sliding-window chunker is
\* text[k*stride : min(k*stride + window_size, len(text))]; the cursor moves by exactly
\* stride per chunk, whatever the chunk's length; and the call returns a chunk for
\* every k with k*stride < len(text) and for no other k.
C21_SlidingChunksAtMultiplesOfStride ==
    (processor = "SlidingWindowChunkProcessor" /\ pc \in {"loop", "done"})
    => /\ \A k \in 0..(Len(all_chunks) - 1) :
            /\ k * payload.stride < Len(units)
            /\ starts[k + 1] = k * payload.stride
            /\ all_chunks[k + 1].text =
                   Slice(units, k * payload.stride,
                         Min(k * payload.stride + payload.window_size, Len(units)))
       /\ cursor = Len(all_chunks) * payload.stride
       /\ pc = "done" => Len(all_chunks) * payload.stride >= Len(units)

\* a returned call whose stride is larger than its window (characters are left out
\* between the chunks) and that emitted a last chunk shorter than the window
C21_Witness ==
    /\ processor = "SlidingWindowChunkProcessor"
    /\ pc = "done"
    /\ payload.stride > payload.window_size
    /\ Len(all_chunks) >= 2
    /\ Len(all_chunks[Len(all_chunks)].text) < payload.window_size

\* what the splitter of the sentence or paragraph chunker returns for the text read
SplitterOutput ==
    IF processor = "SentenceChunkProcessor"
    THEN regex_sentence_split(read_text(file))
    ELSE split_into_paragraphs(read_text(file))

\* C22: the sentence chunker and the paragraph chunker emit one chunk per unit their
\* splitter returns, in the splitter's order, chunk i's text being unit i, non-empty
\* and with no whitespace at either end; "Hello world. This is a test." gives the
\* sentence chunks "Hello world." and "This is a test.", and "Para one.\n\nPara two."
\* gives the paragraph chunks "Para one." and "Para two.".
C22_OneChunkPerUnit ==
    (processor \in {"SentenceChunkProcessor", "ParagraphChunkProcessor"}
     /\ pc \in {"loop", "done"})
    => /\ units = SplitterOutput
       /\ Len(all_chunks) <= Len(units)
       /\ pc = "done" => Len(all_chunks) = Len(units)
       /\ \A k \in 1..Len(all_chunks) :
            /\ all_chunks[k].text = units[k]
            /\ all_chunks[k].text # <<>>
            /\ Strip(all_chunks[k].text) = all_chunks[k].text
       /\ (processor = "SentenceChunkProcessor" /\ file = ExistingFile(Example2Text)
           /\ pc = "done")
          => /\ Len(all_chunks) = 2
             /\ all_chunks[1].text = SubSeq(Example2Text, 1, 12)
             /\ all_chunks[2].text = SubSeq(Example2Text, 14, 28)
       /\ (processor = "ParagraphChunkProcessor" /\ file = ExistingFile(Example3Text)
           /\ pc = "done")
          => /\ Len(all_chunks) = 2
             /\ all_chunks[1].text = SubSeq(Example3Text, 1, 9)
             /\ all_chunks[2].text = SubSeq(Example3Text, 12, 20)

\* the sentence chunker returned the two sentences of Example 2
C22_Witness ==
    /\ processor = "SentenceChunkProcessor"
    /\ file = ExistingFile(Example2Text)
    /\ pc = "done"
    /\ Len(all_chunks) = 2

\* the chunker holds the request it was constructed with, and the hybrid one the four
\* parameters of that request
HoldsRequest(self, p) ==
    /\ self.payload = p
    /\ self.payload.cls = "HybridChunkRequest" /\ DOMAIN self # {"payload"} =>
           /\ self.max_chars = p.max_chars
           /\ self.max_sentences = p.max_sentences
           /\ self.overlap_sentences = p.overlap_sentences
           /\ self.min_sentences = p.min_sentences

\* __init__ has returned: the call is in process(), or process() raised (the dispatcher
\* raises HTTPException and the hybrid __init__ ValueError before that)
IsConstructed ==
    \/ pc \in {"open", "loop", "done"}
    \/ /\ pc = "raised"
       /\ raised.cls # "HTTPException"
       /\ ~(processor = "HybridChunkProcessor" /\ raised.cls = "ValueError")

\* C23: no step of a call changes the request: every field of the payload is the same
\* after the step as before it, the chunker constructed holds that very payload (and,
\* for hybrid, the parameters copied from it), and once constructed the chunker's
\* attributes never change, up to the return or the exception.
C23_PayloadNeverModified ==
    [][/\ payload' = payload
       /\ IsConstructed' => HoldsRequest(self_', payload)
       /\ IsConstructed => self_' = self_]_vars

\* a hybrid call that returned two chunks or more, its request as it was given
C23_Witness ==
    /\ processor = "HybridChunkProcessor"
    /\ pc = "done"
    /\ Len(all_chunks) >= 2
    /\ IsConstructed
    /\ HoldsRequest(self_, payload)
    /\ payload.overlap_sentences >= payload.max_sentences

\* the least element of a non-empty set of numbers
MinOf(S) == CHOOSE m \in S : \A k \in S : m <= k

\* the paragraph the chunk after the k-th starts at (the cursor, after the last chunk)
StartAfter(k) == IF k < Len(starts) THEN starts[k + 1] ELSE cursor

\* the paragraph indices among lo..(n - 1) whose cumulative offset reaches the target
\* of the k-th chunk, char_start + stride
ReachTarget(k, lo) ==
    {idx \in lo..(Len(units) - 1) :
        At(cum_offsets, idx) >= all_chunks[k].char_start + payload.stride}

\* C24: in the paragraph-sliding chunker, after a chunk that starts at paragraph s and
\* whose last paragraph is e, the next chunk starts at the smallest paragraph index,
\* among all indices, whose cumulative offset is >= char_start + stride, when there is
\* one and it is greater than s, and at e + 1 otherwise; the search over s+1..n-1 of
\* the code finds the same index as the search over all indices.
C24_ParaSlideNextStart ==
    (processor = "ParagraphSlidingChunkProcessor" /\ pc \in {"loop", "done"})
    => \A k \in 1..Len(all_chunks) :
           LET s == starts[k]
               e == all_chunks[k].paragraph_range[2]
               all == ReachTarget(k, 0)
               restricted == ReachTarget(k, s + 1)
           IN  /\ StartAfter(k) = IF all # {} /\ MinOf(all) > s THEN MinOf(all)
                                  ELSE e + 1
               /\ (all = {}) = (restricted = {})
               /\ all # {} => MinOf(all) = MinOf(restricted)

\* the second chunk starts at a paragraph inside the first chunk, the one whose offset
\* is exactly char_start + stride
C24_Witness ==
    /\ processor = "ParagraphSlidingChunkProcessor"
    /\ Len(all_chunks) >= 2
    /\ starts[2] <= all_chunks[1].paragraph_range[2]
    /\ At(cum_offsets, starts[2]) = all_chunks[1].char_start + payload.stride
    /\ starts[2] > 1

\* offset(0) = 0 and offset(k + 1) = offset(k) + len(paragraph k) + 2
RECURSIVE OffsetOf(_)
OffsetOf(k) == IF k = 0 THEN 0 ELSE OffsetOf(k - 1) + Len(At(units, k - 1)) + 2

\* C25: every chunk of the paragraph-sliding chunker, with paragraph_range (s, e), has
\* 0 <= s <= e < number of paragraphs after the merge; char_start is the cumulative
\* offset of paragraph s; char_end = char_start + len(text); text is the paragraphs
\* s..e joined by "\n\n"; and when paragraph e + 1 exists, char_end + 2 is its offset.
C25_ParaSlideRangeAndOffsets ==
    (processor = "ParagraphSlidingChunkProcessor" /\ pc \in {"loop", "done"})
    => \A k \in 1..Len(all_chunks) :
           LET c == all_chunks[k]
               s == c.paragraph_range[1]
               e == c.paragraph_range[2]
           IN  /\ 0 <= s /\ s <= e /\ e < Len(units)
               /\ c.char_start = OffsetOf(s)
               /\ c.char_end = c.char_start + Len(c.text)
               /\ c.text = Join(<<"\n", "\n">>, SubSeq(units, s + 1, e + 1))
               /\ e + 1 < Len(units) => c.char_end + 2 = OffsetOf(e + 1)

\* a first chunk of two paragraphs that is followed by a further paragraph, and a
\* second chunk that starts after the first paragraph
C25_Witness ==
    /\ processor = "ParagraphSlidingChunkProcessor"
    /\ Len(all_chunks) >= 2
    /\ all_chunks[1].paragraph_range = <<0, 1>>
    /\ Len(units) > 2
    /\ all_chunks[2].char_start > 0

\* the non-empty paragraphs of the text read, before the merge pass
OriginalParas == StripNonEmpty(BlankLineSplitFrom(read_text(file), 0, 0))

\* C26: after the merge pass of the paragraph-sliding chunker every paragraph but the
\* first has at least 30 characters, and the merged paragraphs joined by "\n\n" are
\* the original non-empty paragraphs joined by "\n\n" (so their order is kept).
C26_MergePass ==
    (processor = "ParagraphSlidingChunkProcessor" /\ file_read)
    => /\ \A k \in 2..Len(units) : Len(units[k]) >= 30
       /\ Len(units) <= Len(OriginalParas)
       /\ (units = <<>>) = (OriginalParas = <<>>)
       /\ Join(<<"\n", "\n">>, units) = Join(<<"\n", "\n">>, OriginalParas)

\* a short first paragraph that survived, and a later short paragraph that was merged
C26_Witness ==
    /\ processor = "ParagraphSlidingChunkProcessor"
    /\ file_read
    /\ Len(units) = 2
    /\ Len(units[1]) < 30
    /\ Len(OriginalParas) = 3
    /\ Len(OriginalParas[3]) < 30

\* what the inner loop alone collected for the k-th hybrid chunk, before the
\* force-include fallback
HybridGrownOf(k) ==
    HybridGrow(self_, units,
               [current_sentences |-> <<>>, current_chars |-> 0, s_count |-> 0,
                j |-> starts[k]])

\* C27: every hybrid chunk that starts at sentence i holds at least
\* min(min_sentences, max_sentences, total_sentences - i) sentences, so at least one;
\* the greedy loop itself always takes the first sentence, whatever its length, and the
\* force-include fallback (s_count == 0 after the loop) changes nothing.
C27_HybridMinimumSentences ==
    (processor = "HybridChunkProcessor" /\ pc \in {"loop", "done"})
    => \A k \in 1..Len(all_chunks) :
           /\ Len(HybridGroupOf(k).current_sentences) >=
                  Min(self_.min_sentences,
                      Min(self_.max_sentences, Len(units) - starts[k]))
           /\ Len(HybridGroupOf(k).current_sentences) >= 1
           /\ HybridGrownOf(k).s_count >= 1
           /\ Head(HybridGrownOf(k).current_sentences) = At(units, starts[k])
           /\ HybridGroupOf(k) = HybridGrownOf(k)

\* a chunk whose first sentence is longer than max_chars, and a chunk cut short by the
\* end of the text
C27_Witness ==
    /\ processor = "HybridChunkProcessor"
    /\ pc = "done"
    /\ \E k \in 1..Len(all_chunks) : Len(At(units, starts[k])) > self_.max_chars
    /\ \E k \in 1..Len(all_chunks) :
        Len(units) - starts[k] < Min(self_.min_sentences, self_.max_sentences)

\* C28: when the fixed chunker returns, with overlap > 0 and len(text) > overlap, the
\* last chunk is text[len - overlap : len], the final overlap characters, and lies
\* wholly inside the chunk before it, which already ends at len; with overlap = 0
\* every chunk starts where the one before it ends, so no chunk lies inside another.
C28_FixedTrailingOverlapChunk ==
    (processor = "FixedChunkProcessor" /\ pc = "done")
    => LET n == Len(all_chunks)
           len == Len(units)
       IN  /\ (payload.overlap > 0 /\ len > payload.overlap)
              => /\ n >= 2
                 /\ starts[n] = len - payload.overlap
                 /\ all_chunks[n].text = Slice(units, len - payload.overlap, len)
                 /\ Len(all_chunks[n].text) = payload.overlap
                 /\ starts[n - 1] < starts[n]
                 /\ ChunkEnd(n - 1) = len
                 /\ ChunkEnd(n) = len
           /\ payload.overlap = 0
              => \A k \in 2..n : /\ starts[k] = ChunkEnd(k - 1)
                                 /\ ChunkEnd(k) > ChunkEnd(k - 1)

\* a returned call with overlap 2 on a text that also ends in a chunk shorter than
\* chunk_size
C28_Witness ==
    /\ processor = "FixedChunkProcessor"
    /\ pc = "done"
    /\ payload.overlap = 2
    /\ Len(all_chunks) >= 2
    /\ Len(all_chunks[Len(all_chunks)].text) = 2
    /\ Len(all_chunks[Len(all_chunks) - 1].text) < payload.chunk_size

\* C29: for the hybrid chunker with a valid configuration, the first chunk starts at
\* sentence 0 and no chunk starts after the end index of the chunk before it, so when
\* the call returns every sentence of the splitter lies in a chunk; consecutive chunks
\* share at most overlap_sentences sentences; and the text of each chunk is its
\* consecutive sentences joined by single spaces.
C29_HybridCoversEverySentence ==
    (processor = "HybridChunkProcessor" /\ pc \in {"loop", "done"})
    => /\ Len(starts) >= 1 => starts[1] = 0
       /\ \A k \in 1..Len(all_chunks) :
            LET j == HybridGroupOf(k).j
            IN  /\ StartAfter(k) <= j
                /\ StartAfter(k) > starts[k]
                /\ j - StartAfter(k) <= self_.overlap_sentences
                /\ all_chunks[k].text = Join(<<" ">>, SubSeq(units, starts[k] + 1, j))
       /\ pc = "done" =>
            \A idx \in 0..(Len(units) - 1) :
                \E k \in 1..Len(all_chunks) :
                    starts[k] <= idx /\ idx < HybridGroupOf(k).j

\* a returned call of three chunks or more in which two consecutive chunks of two
\* sentences or more share exactly overlap_sentences = 1 sentence
C29_Witness ==
    /\ processor = "HybridChunkProcessor"
    /\ pc = "done"
    /\ Len(all_chunks) >= 3
    /\ self_.overlap_sentences = 1
    /\ \E k \in 1..(Len(all_chunks) - 1) :
            /\ HybridGroupOf(k).j - starts[k] >= 2
            /\ HybridGroupOf(k).j - starts[k + 1] = 1

\* C30: for the paragraph-sliding chunker with stride <= window_size, no paragraph is
\* skipped: each chunk after the first starts at most one paragraph after the last
\* paragraph of the chunk before it, so when the call returns every post-merge
\* paragraph index lies in the paragraph_range of some chunk.
C30_ParaSlideNoParagraphSkipped ==
    (/\ processor = "ParagraphSlidingChunkProcessor"
     /\ pc \in {"loop", "done"}
     /\ payload.stride <= payload.window_size)
    => /\ \A k \in 1..Len(all_chunks) :
            StartAfter(k) <= all_chunks[k].paragraph_range[2] + 1
       /\ pc = "done" =>
            \A idx \in 0..(Len(units) - 1) :
                \E k \in 1..Len(all_chunks) :
                    /\ all_chunks[k].paragraph_range[1] <= idx
                    /\ idx <= all_chunks[k].paragraph_range[2]

====
